---- MODULE Spec2Model ----
(***************************************************************************)
(* The training orchestrator of src/train.py (main, lines 67-226) as a     *)
(* state machine: one action per statement group of main, the program      *)
(* counter pc naming the statement about to run.                           *)
(*                                                                         *)
(* External collaborators (the algorithm, the loaders, the evaluator, the  *)
(* graph builder, the encoder, the optimizer factory) are not under src/;  *)
(* their effect is modelled from their documented contract.                *)
(* Every call to a collaborator may raise: the exception propagates out    *)
(* of main (there is no try/except in src/train.py) and the run ends in    *)
(* pc = "aborted".                                                         *)
(***************************************************************************)
EXTENDS Integers, Sequences, FiniteSets, TLC

\* ---------------------------------------------------------------- bounds
MaxEpoch == 2      \* args.max_epoch   is drawn from 0..MaxEpoch
MaxLocal == 2      \* args.local_epoch is drawn from 0..MaxLocal
MaxLoader == 3     \* the training loader yields 0..MaxLoader batches
MaxBatch == 2      \* a batch holds 1..MaxBatch samples
MaxAcc == 2        \* an accuracy is one of 0/MaxAcc .. MaxAcc/MaxAcc
Channels == 2      \* sensor channels C of a window
TimeLen == 2       \* time steps T of a window
FeatDim == 3       \* the encoder's output dimension
MaxValid == 2      \* a batch of the validation loader holds 1..MaxValid samples
MaxLatent == 7     \* args.latent_domain_num is drawn from 1..MaxLatent
MaxCfgBatch == 3   \* the configured args.batch_size is drawn from 0..MaxCfgBatch

VARIABLES
    pc,               \* the statement of main about to run
    args,             \* the configuration: max_epoch, local_epoch, use_gnn
    train_len,        \* number of batches train_loader yields per iteration
    rank4,            \* TRUE: sensor tensors are [B, C, 1, T]; FALSE: [B, C, T]
    round, step, it,  \* loop positions: round, inner epoch, batches drawn
    data,             \* the loop variable of `for data in train_loader`
    raw,              \* history: the batch as the loader yielded it
    gnn,              \* the encoder object (0: None)
    gnn_graphs,       \* result of build_correlation_graph
    gnn_features,     \* result of the last gnn(graph_batch) call
    n_graph_batches,  \* history: batches geo_loader yielded for this batch
    modules,          \* algorithm attribute -> module object id (0: not set)
    alg_use_gnn,      \* the attribute algorithm.use_gnn
    version,          \* module object id -> number of optimizer steps applied
    next_id,          \* next fresh object id
    optd, opt, opta,  \* the three optimizers
    loss_result_dict, \* result of the last update_a / update_d call
    step_vals,        \* result of the last update call
    results,          \* the metric row being built (lines 197-215)
    best_valid_acc, target_acc,
    reported,         \* history: the value the final line printed (-1: none)
    trace,            \* history: the calls made on the algorithm / evaluator
    phases,           \* history: the phases entered, in order
    out,              \* history: the console lines printed
    failed_at,        \* history: the statement that raised ("": none did)
    shap_batch,       \* explain_gnn_with_shap: the batch drawn (line 26)
    background,       \* explain_gnn_with_shap: the background set
    test_samples,     \* explain_gnn_with_shap: the evaluation set
    hist              \* history: what the evaluations of this run returned

vars == <<pc, args, train_len, rank4, round, step, it, data, raw, gnn,
          gnn_graphs, gnn_features, n_graph_batches, modules, alg_use_gnn,
          version, next_id, optd, opt, opta, loss_result_dict, step_vals,
          results,
          best_valid_acc, target_acc, reported, trace, phases, out, failed_at,
          shap_batch, background, test_samples, hist>>

\* Groups of variables, for UNCHANGED.
cfgVars == <<args, train_len, rank4>>
loopVars == <<round, step, it>>
gnnVars == <<gnn, gnn_graphs, gnn_features, n_graph_batches>>
algVars == <<modules, alg_use_gnn, version, next_id>>
optVars == <<optd, opt, opta>>
lossVars == <<loss_result_dict, step_vals>>
accVars == <<results, best_valid_acc, target_acc, reported, hist>>
shapVars == <<shap_batch, background, test_samples>>
restVars == <<cfgVars, shapVars, failed_at>>

Acc == 0..MaxAcc

\* ------------------------------------------------------------ data values
Undef == [by |-> "undefined", round |-> -1, step |-> -1]
NoTensor == [kind |-> "none", shape |-> <<>>, rows |-> <<>>]
NoData == [tuple |-> FALSE, elems |-> <<>>]
NoResults == [epoch |-> -1, valid_acc |-> -1, target_acc |-> -1]
NoOpt == [id |-> 0, nettype |-> "none", params |-> {}]

\* A sample of the i-th batch of the training loader.
Sample(i, j) == [b |-> i, s |-> j]

\* The i-th batch holds BatchLen(i) samples: sizes cycle through 1..MaxBatch.
BatchLen(i) == ((i - 1) % MaxBatch) + 1

SensorShape(n) ==
    IF rank4 THEN <<n, Channels, 1, TimeLen>> ELSE <<n, Channels, TimeLen>>

\* The i-th batch of train_loader: (sensor windows, class labels, domain ids).
TrainBatch(i) ==
    LET n == BatchLen(i)
        ids == [j \in 1..n |-> Sample(i, j)]
    IN [tuple |-> TRUE,
        elems |-> << [kind |-> "x", shape |-> SensorShape(n), rows |-> ids],
                     [kind |-> "y", shape |-> <<n>>, rows |-> ids],
                     [kind |-> "d", shape |-> <<n>>, rows |-> ids] >>]

\* ------------------------------------------- graph wiring (lines 126-139)
IsTuple(d) == d.tuple

\* line 127: batch_x = data[0] if isinstance(data, (list, tuple)) else data
BatchX(d) == d.elems[1]

\* lines 128-129: squeeze dimension 2 (the third) when the tensor has four
\* dimensions and that one is 1.
MaybeSqueeze(x) ==
    IF Len(x.shape) = 4 /\ x.shape[3] = 1
    THEN [x EXCEPT !.shape = <<x.shape[1], x.shape[2], x.shape[4]>>]
    ELSE x

\* line 130: one graph per window of the batch, in batch order; its nodes are
\* the sensor channels.
build_correlation_graph(x) ==
    [i \in 1..x.shape[1] |-> [sample |-> x.rows[i], nodes |-> x.shape[2]]]

GeoBatchSizeOne(graphs) == 1

\* line 132: batch_size=len(gnn_graphs)
GeoBatchSize(graphs) == Len(graphs)

Min(a, b) == IF a < b THEN a ELSE b

\* line 132-133: the batches a loader over `graphs` yields, bs graphs each,
\* the last one possibly shorter, in order.
GeoDataLoader(graphs, bs) ==
    LET n == Len(graphs)
        k == (n + bs - 1) \div bs
    IN [c \in 1..k |-> SubSeq(graphs, (c - 1) * bs + 1, Min(c * bs, n))]

\* line 135: the encoder returns one embedding row per graph of the batch.
TemporalGCN(graph_batch) ==
    [kind |-> "emb",
     shape |-> <<Len(graph_batch), FeatDim>>,
     rows |-> [i \in 1..Len(graph_batch) |-> graph_batch[i].sample]]

\* lines 133-135: gnn_features is assigned once per graph batch; it keeps its
\* earlier value when the loop body never runs.
EncodeAll(old, batches) ==
    IF batches = <<>> THEN old ELSE TemporalGCN(batches[Len(batches)])

SubstituteDropRest(d, f) == [tuple |-> FALSE, elems |-> <<f>>]

\* lines 136-139: data = (gnn_features, *data[1:]) for a tuple of more than
\* one element, else data = gnn_features.
Substitute(d, f) ==
    IF IsTuple(d) /\ Len(d.elems) > 1
    THEN [tuple |-> TRUE, elems |-> <<f>> \o Tail(d.elems)]
    ELSE [tuple |-> FALSE, elems |-> <<f>>]

\* The whole wiring block: the new values of gnn_graphs, the graph batches,
\* gnn_features and data.
GnnWire(d, old_features) ==
    LET batch_x == MaybeSqueeze(BatchX(d))
        graphs == build_correlation_graph(batch_x)
        batches == GeoDataLoader(graphs, GeoBatchSize(graphs))
        feats == EncodeAll(old_features, batches)
    IN [graphs |-> graphs, batches |-> batches, features |-> feats,
        data |-> Substitute(d, feats)]

\* ------------------------------------- algorithm modules and optimizers
Slots == {"featurizer", "bottleneck", "abottleneck", "dbottleneck",
          "classifier", "gnn_extractor"}

\* The parameter subset each optimizer kind is scoped to.
SubsetSlots(nettype) ==
    CASE nettype = "Diversify-adv" -> {"dbottleneck"}
      [] nettype = "Diversify-cls" -> {"bottleneck", "classifier"}
      [] nettype = "Diversify-all" -> {"featurizer", "abottleneck"}
      [] OTHER -> {}

NetTypes == {"Diversify-adv", "Diversify-cls", "Diversify-all"}

\* get_optimizer: an optimizer over the module objects that the algorithm's
\* attributes hold at the time of the call.
get_optimizer(id, nettype) ==
    [id |-> id, nettype |-> nettype,
     params |-> {modules[s] : s \in SubsetSlots(nettype)}]

\* One optimizer step: the parameters of the optimizer's modules change.
OptStep(o) ==
    [m \in DOMAIN version |-> IF m \in o.params THEN version[m] + 1
                                                 ELSE version[m]]

NetTypeOptaAdv == "Diversify-adv"

NetTypeOptd == "Diversify-adv"   \* line 114
NetTypeOpt == "Diversify-cls"    \* line 115
NetTypeOpta == "Diversify-all"   \* line 116

\* range(n): the loop body runs for i = 0 .. n-1.
InRangeOffByOne(i, n) == i <= n

InRange(i, n) == i < n

Call(name, o) == [call |-> name, opt |-> o.id, round |-> round]

\* ------------------------------------------------------------------ Init
\* What Init and InitSetup share: everything but args and pc.
InitRest ==
    /\ train_len \in 0..MaxLoader
    /\ rank4 \in BOOLEAN
    /\ round = 0 /\ step = 0 /\ it = 0
    /\ data = NoData /\ raw = NoData
    /\ gnn = 0 /\ gnn_graphs = <<>> /\ gnn_features = NoTensor
    /\ n_graph_batches = 0
    /\ modules = [s \in Slots |-> CASE s = "featurizer" -> 1
                                    [] s = "bottleneck" -> 2
                                    [] s = "abottleneck" -> 3
                                    [] s = "dbottleneck" -> 4
                                    [] s = "classifier" -> 5
                                    [] OTHER -> 0]
    /\ alg_use_gnn = FALSE
    /\ version = [m \in 1..5 |-> 0]
    /\ next_id = 6
    /\ optd = NoOpt /\ opt = NoOpt /\ opta = NoOpt
    /\ loss_result_dict = Undef /\ step_vals = Undef
    /\ results = NoResults
    /\ best_valid_acc = 0 /\ target_acc = 0       \* line 80
    /\ reported = -1
    /\ trace = <<>> /\ phases = <<>> /\ out = <<>>
    /\ failed_at = ""
    /\ shap_batch = NoData /\ background = <<>> /\ test_samples = <<>>
    /\ hist = [n |-> 0, max_valid |-> -1, target_at_max |-> -1]

\* The state in which line 87 is reached: lines 68-84 read nothing that the
\* rest of main reads again except max_epoch, local_epoch and use_gnn.
Init ==
    /\ args \in [max_epoch : 0..MaxEpoch, local_epoch : 0..MaxLocal,
                 use_gnn : {0, 1}]
    /\ pc = "gnn_init"
    /\ InitRest

\* ------------------------------------------ batch size (lines 73-78)
LatentThreshold == 6              \* line 73
FactorSmall == 32                 \* line 74
FactorLarge == 16                 \* line 76

BatchSizeForLe(n) ==
    IF n <= LatentThreshold THEN FactorSmall * n ELSE FactorLarge * n

\* lines 73-76
BatchSizeFor(n) ==
    IF n < LatentThreshold THEN FactorSmall * n ELSE FactorLarge * n

\* The state in which main is entered: the configuration as given.
InitSetup ==
    /\ args \in [max_epoch : 0..MaxEpoch, local_epoch : 0..MaxLocal,
                 use_gnn : {0, 1}, latent_domain_num : 1..MaxLatent,
                 batch_size : 0..MaxCfgBatch]
    /\ pc = "setup"
    /\ InitRest

SetupFrame ==
    UNCHANGED <<train_len, rank4, shapVars, failed_at, loopVars, data, raw,
                gnnVars, algVars, optVars, lossVars, accVars, trace, phases,
                out>>

\* lines 73-76: args.batch_size is assigned from args.latent_domain_num.
DeriveBatchSize ==
    /\ pc = "setup"
    /\ args' = [args EXCEPT
                   !.batch_size = BatchSizeFor(args.latent_domain_num)]
    /\ pc' = "loaders"
    /\ SetupFrame

\* line 78: get_act_dataloader(args) builds the loaders.
BuildLoaders ==
    /\ pc = "loaders"
    /\ pc' = "gnn_init"
    /\ UNCHANGED args
    /\ SetupFrame

NextSetup == DeriveBatchSize \/ BuildLoaders

\* main from its entry to line 78.
SpecSetup == InitSetup /\ [][NextSetup]_vars

\* --------------------------------------------------- setup (lines 87-116)
GraphMode == args.use_gnn # 0 /\ gnn # 0      \* `use_gnn and gnn is not None`

\* lines 87-112.  With use_gnn set, line 90 draws one batch from the training
\* loader (StopIteration on an empty loader), the encoder is built, the
\* featurizer becomes an identity and the three bottlenecks are rebuilt.
GnnInit ==
    /\ pc = "gnn_init"
    /\ IF args.use_gnn = 0
       THEN /\ pc' = "make_optd"
            /\ UNCHANGED <<gnn, modules, alg_use_gnn, version, next_id, out,
                           failed_at>>
       ELSE IF train_len = 0
       THEN /\ pc' = "aborted"
            /\ failed_at' = pc
            /\ UNCHANGED <<gnn, modules, alg_use_gnn, version, next_id, out>>
       ELSE /\ gnn' = next_id
            /\ failed_at' = failed_at
            /\ modules' = [modules EXCEPT !["featurizer"] = next_id + 1,
                                          !["bottleneck"] = next_id + 2,
                                          !["abottleneck"] = next_id + 3,
                                          !["dbottleneck"] = next_id + 4,
                                          !["gnn_extractor"] = next_id]
            /\ alg_use_gnn' = TRUE
            /\ version' = [m \in 1..(next_id + 4) |->
                              IF m \in DOMAIN version THEN version[m] ELSE 0]
            /\ next_id' = next_id + 5
            /\ out' = out \o <<"info_gnn", "info_bottleneck",
                               "info_abottleneck", "info_dbottleneck">>
            /\ pc' = "make_optd"
    /\ UNCHANGED <<cfgVars, shapVars, loopVars, data, raw, gnn_graphs,
                   gnn_features, n_graph_batches, optVars, lossVars, accVars,
                   trace, phases>>

\* line 114
MakeOptd ==
    /\ pc = "make_optd"
    /\ optd' = get_optimizer(next_id, NetTypeOptd)
    /\ next_id' = next_id + 1
    /\ pc' = "make_opt"
    /\ UNCHANGED <<restVars, loopVars, data, raw, gnnVars, modules, alg_use_gnn,
                   version, opt, opta, lossVars, accVars, trace, phases, out>>

\* line 115
MakeOpt ==
    /\ pc = "make_opt"
    /\ opt' = get_optimizer(next_id, NetTypeOpt)
    /\ next_id' = next_id + 1
    /\ pc' = "make_opta"
    /\ UNCHANGED <<restVars, loopVars, data, raw, gnnVars, modules, alg_use_gnn,
                   version, optd, opta, lossVars, accVars, trace, phases, out>>

MakeOptaThenRebuild ==
    /\ pc = "make_opta"
    /\ opta' = get_optimizer(next_id, NetTypeOpta)
    /\ modules' = IF args.use_gnn = 0 THEN modules
                  ELSE [modules EXCEPT !["abottleneck"] = next_id + 1]
    /\ version' = [m \in 1..(next_id + 1) |->
                      IF m \in DOMAIN version THEN version[m] ELSE 0]
    /\ next_id' = next_id + 2
    /\ pc' = "round_head"
    /\ UNCHANGED <<restVars, loopVars, data, raw, gnnVars, alg_use_gnn,
                   optd, opt, lossVars, accVars, trace, phases, out>>

\* line 116
MakeOpta ==
    /\ pc = "make_opta"
    /\ opta' = get_optimizer(next_id, NetTypeOpta)
    /\ next_id' = next_id + 1
    /\ pc' = "round_head"
    /\ UNCHANGED <<restVars, loopVars, data, raw, gnnVars, modules, alg_use_gnn,
                   version, optd, opt, lossVars, accVars, trace, phases, out>>

\* ------------------------------------------- the round loop (line 118-122)
AfterLastRoundSkipReport == "shap_info"

\* line 218 follows the round loop.
AfterLastRound == "report"

EnterPhase(name) == phases' = Append(phases, [round |-> round, phase |-> name])

\* lines 118-122: the loop test of `for round in range(args.max_epoch)`, the
\* round banner and the header of the feature-update block.  round counts
\* the rounds finished; it is the index of the round being run.
RoundHead ==
    /\ pc = "round_head"
    /\ IF InRange(round, args.max_epoch)
       THEN /\ out' = out \o <<"round_banner", "fa_title", "fa_header">>
            /\ EnterPhase("FEATURE_UPDATE")
            /\ step' = 0
            /\ pc' = "fa_step"
       ELSE /\ pc' = AfterLastRound
            /\ UNCHANGED <<out, phases, step>>
    /\ UNCHANGED <<restVars, round, it, data, raw, gnnVars, algVars, optVars,
                   lossVars, accVars, trace>>

\* The frame of a step that only moves within the loops.
LoopFrame ==
    UNCHANGED <<restVars, data, raw, gnnVars, algVars, optVars, lossVars,
                accVars, trace, phases, out>>

\* `for data in train_loader`: draw the next batch, or leave the loop.
NextBatch(graph_pc, call_pc, exit_pc) ==
    /\ IF it < train_len
       THEN /\ it' = it + 1
            /\ data' = TrainBatch(it + 1)
            /\ raw' = TrainBatch(it + 1)
            /\ pc' = IF GraphMode THEN graph_pc ELSE call_pc
       ELSE /\ pc' = exit_pc
            /\ UNCHANGED <<it, data, raw>>
    /\ UNCHANGED <<restVars, round, step, gnnVars, algVars, optVars, lossVars,
                   accVars, trace, phases, out>>

\* The graph wiring block in front of an algorithm call.
Wire(w, call_pc) ==
    /\ gnn_graphs' = w.graphs
    /\ n_graph_batches' = Len(w.batches)
    /\ gnn_features' = w.features
    /\ data' = w.data
    /\ pc' = call_pc
    /\ UNCHANGED <<restVars, loopVars, raw, gnn, algVars, optVars, lossVars,
                   accVars, trace, phases, out>>

\* ------------------------------------------ feature update (lines 124-141)
WireA(d, f) == GnnWire(d, f)      \* lines 126-139

UpdateAOpt == opta                \* line 140: the optimizer update_a gets

AfterFeaturePhaseSkip == "set_dlabel"

\* line 143 follows the feature-update loop.
AfterFeaturePhase == "dc_head"

\* line 124
FaStep ==
    /\ pc = "fa_step"
    /\ IF InRange(step, args.local_epoch)
       THEN it' = 0 /\ pc' = "fa_data"
       ELSE it' = it /\ pc' = AfterFeaturePhase
    /\ UNCHANGED <<round, step>>
    /\ LoopFrame

\* line 125
FaData ==
    /\ pc = "fa_data"
    /\ NextBatch("fa_graph", "fa_call", "fa_row")

\* lines 126-139
FaGraph ==
    /\ pc = "fa_graph"
    /\ Wire(WireA(data, gnn_features), "fa_call")

\* line 140: loss_result_dict = algorithm.update_a(data, opta)
FaCall ==
    /\ pc = "fa_call"
    /\ trace' = Append(trace, Call("update_a", UpdateAOpt))
    /\ version' = OptStep(UpdateAOpt)
    /\ loss_result_dict' = [by |-> "update_a", round |-> round, step |-> step]
    /\ pc' = "fa_data"
    /\ UNCHANGED <<restVars, loopVars, data, raw, gnnVars, modules, alg_use_gnn,
                   next_id, optVars, step_vals, accVars, phases, out>>

\* line 141: reading loss_result_dict before any update_a call assigned it
\* is a NameError.
FaRow ==
    /\ pc = "fa_row"
    /\ IF loss_result_dict = Undef
       THEN pc' = "aborted" /\ failed_at' = pc /\ UNCHANGED <<out, step>>
       ELSE /\ out' = Append(out, "fa_row")
            /\ step' = step + 1
            /\ pc' = "fa_step"
            /\ failed_at' = failed_at
    /\ UNCHANGED <<cfgVars, shapVars, round, it, data, raw, gnnVars, algVars, optVars,
                   lossVars, accVars, trace, phases>>

\* ------------------------------ domain characterization (lines 143-164)
WireD(d, f) == GnnWire(d, f)      \* lines 149-162

UpdateDOptA == opta

UpdateDOpt == optd                \* line 163: the optimizer update_d gets

\* lines 143-145
DcHead ==
    /\ pc = "dc_head"
    /\ out' = out \o <<"dc_title", "dc_header">>
    /\ EnterPhase("DOMAIN_CHARACTERIZATION")
    /\ step' = 0
    /\ pc' = "dc_step"
    /\ UNCHANGED <<restVars, round, it, data, raw, gnnVars, algVars, optVars,
                   lossVars, accVars, trace>>

AfterDomainPhaseSkip == "il_head"

\* line 166 follows the domain-characterization loop.
AfterDomainPhase == "set_dlabel"

\* line 147
DcStep ==
    /\ pc = "dc_step"
    /\ IF InRange(step, args.local_epoch)
       THEN it' = 0 /\ pc' = "dc_data"
       ELSE it' = it /\ pc' = AfterDomainPhase
    /\ UNCHANGED <<round, step>>
    /\ LoopFrame

\* line 148
DcData ==
    /\ pc = "dc_data"
    /\ NextBatch("dc_graph", "dc_call", "dc_row")

\* lines 149-162
DcGraph ==
    /\ pc = "dc_graph"
    /\ Wire(WireD(data, gnn_features), "dc_call")

\* line 163: loss_result_dict = algorithm.update_d(data, optd)
DcCall ==
    /\ pc = "dc_call"
    /\ trace' = Append(trace, Call("update_d", UpdateDOpt))
    /\ version' = OptStep(UpdateDOpt)
    /\ loss_result_dict' = [by |-> "update_d", round |-> round, step |-> step]
    /\ pc' = "dc_data"
    /\ UNCHANGED <<restVars, loopVars, data, raw, gnnVars, modules, alg_use_gnn,
                   next_id, optVars, step_vals, accVars, phases, out>>

\* line 164
DcRow ==
    /\ pc = "dc_row"
    /\ IF loss_result_dict = Undef
       THEN pc' = "aborted" /\ failed_at' = pc /\ UNCHANGED <<out, step>>
       ELSE /\ out' = Append(out, "dc_row")
            /\ step' = step + 1
            /\ pc' = "dc_step"
            /\ failed_at' = failed_at
    /\ UNCHANGED <<cfgVars, shapVars, round, it, data, raw, gnnVars, algVars, optVars,
                   lossVars, accVars, trace, phases>>

\* line 166: algorithm.set_dlabel(train_loader)
SetDlabel ==
    /\ pc = "set_dlabel"
    /\ trace' = Append(trace, Call("set_dlabel", NoOpt))
    /\ EnterPhase("SET_PSEUDO_LABELS")
    /\ pc' = "il_head"
    /\ UNCHANGED <<restVars, loopVars, data, raw, gnnVars, algVars, optVars,
                   lossVars, accVars, out>>

\* ------------------------------------ invariant learning (lines 168-216)
WireU(d, f) == GnnWire(d, f)      \* lines 181-194

UpdateOpt == opt                  \* line 195: the optimizer update gets

\* lines 168-178
IlHead ==
    /\ pc = "il_head"
    /\ out' = out \o <<"il_title", "il_header">>
    /\ EnterPhase("INVARIANT_LEARNING")
    /\ step' = 0
    /\ pc' = "il_step"
    /\ UNCHANGED <<restVars, round, it, data, raw, gnnVars, algVars, optVars,
                   lossVars, accVars, trace>>

\* line 179; leaving the loop ends the round.
IlStep ==
    /\ pc = "il_step"
    /\ IF InRange(step, args.local_epoch)
       THEN it' = 0 /\ pc' = "il_data" /\ round' = round
       ELSE it' = it /\ pc' = "round_head" /\ round' = round + 1
    /\ UNCHANGED step
    /\ LoopFrame

\* line 180
IlData ==
    /\ pc = "il_data"
    /\ NextBatch("il_graph", "il_call", "eval_train")

IlGraphSkipsUpdate ==
    /\ pc = "il_graph"
    /\ Wire(WireU(data, gnn_features), "il_data")

\* lines 181-194
IlGraph ==
    /\ pc = "il_graph"
    /\ Wire(WireU(data, gnn_features), "il_call")

IlCallThenEval ==
    /\ pc = "il_call"
    /\ trace' = Append(trace, Call("update", UpdateOpt))
    /\ version' = OptStep(UpdateOpt)
    /\ step_vals' = [by |-> "update", round |-> round, step |-> step]
    /\ pc' = "eval_train"
    /\ UNCHANGED <<restVars, loopVars, data, raw, gnnVars, modules, alg_use_gnn,
                   next_id, optVars, loss_result_dict, accVars, phases, out>>

\* line 195: step_vals = algorithm.update(data, opt)
IlCall ==
    /\ pc = "il_call"
    /\ trace' = Append(trace, Call("update", UpdateOpt))
    /\ version' = OptStep(UpdateOpt)
    /\ step_vals' = [by |-> "update", round |-> round, step |-> step]
    /\ pc' = "il_data"
    /\ UNCHANGED <<restVars, loopVars, data, raw, gnnVars, modules, alg_use_gnn,
                   next_id, optVars, loss_result_dict, accVars, phases, out>>

EvalFrame ==
    UNCHANGED <<restVars, loopVars, data, raw, gnnVars, algVars, optVars,
                lossVars, best_valid_acc, target_acc, reported, phases, out>>

\* lines 197-202: a new row, and the accuracy over train_loader_noshuffle
\* (its value is only printed).
EvalTrain ==
    /\ pc = "eval_train"
    /\ results' = [epoch |-> step, valid_acc |-> -1, target_acc |-> -1]
    /\ trace' = Append(trace, Call("eval_train", NoOpt))
    /\ pc' = "eval_valid"
    /\ UNCHANGED hist
    /\ EvalFrame

\* lines 204-205
EvalValid ==
    /\ pc = "eval_valid"
    /\ \E a \in Acc : results' = [results EXCEPT !.valid_acc = a]
    /\ trace' = Append(trace, Call("eval_valid", NoOpt))
    /\ pc' = "eval_target"
    /\ UNCHANGED hist
    /\ EvalFrame

\* What the run's evaluations returned so far: how many (valid, target) pairs,
\* the largest validation accuracy among them and the target accuracy
\* measured at the first evaluation that returned it.
Observe(h, v, t) ==
    [n |-> h.n + 1,
     max_valid |-> IF v > h.max_valid THEN v ELSE h.max_valid,
     target_at_max |-> IF v > h.max_valid THEN t ELSE h.target_at_max]

\* lines 207-208
EvalTarget ==
    /\ pc = "eval_target"
    /\ \E a \in Acc :
          /\ results' = [results EXCEPT !.target_acc = a]
          /\ hist' = Observe(hist, results.valid_acc, a)
    /\ trace' = Append(trace, Call("eval_target", NoOpt))
    /\ pc' = "il_row"
    /\ EvalFrame

ImprovesOrTies(v, best) == v >= best

\* line 212: results['valid_acc'] > best_valid_acc
Improves(v, best) == v > best

\* lines 210-216: the losses of step_vals go into the row (a NameError when
\* no update call assigned step_vals), the best-validation tracker is
\* updated and the row is printed.  results is rebuilt at line 197 before it
\* is read again.
IlRow ==
    /\ pc = "il_row"
    /\ IF step_vals = Undef
       THEN /\ pc' = "aborted"
            /\ failed_at' = pc
            /\ UNCHANGED <<out, step, results, best_valid_acc, target_acc>>
       ELSE /\ IF Improves(results.valid_acc, best_valid_acc)
               THEN /\ best_valid_acc' = results.valid_acc
                    /\ target_acc' = results.target_acc
               ELSE UNCHANGED <<best_valid_acc, target_acc>>
            /\ results' = NoResults
            /\ out' = Append(out, "il_row")
            /\ step' = step + 1
            /\ pc' = "il_step"
            /\ failed_at' = failed_at
    /\ UNCHANGED <<cfgVars, shapVars, round, it, data, raw, gnnVars, algVars, optVars,
                   lossVars, reported, hist, trace, phases>>

\* ------------------------------------------- after training (218-226)
TailFrame ==
    UNCHANGED <<restVars, loopVars, data, raw, gnnVars, algVars, optVars,
                lossVars, results, best_valid_acc, target_acc, hist, trace,
                phases>>

\* line 218: print(f'Target acc: {target_acc:.4f}'), then the test of line 221
Report ==
    /\ pc = "report"
    /\ out' = Append(out, "final")
    /\ reported' = target_acc
    /\ pc' = IF GraphMode THEN "shap_info" ELSE "done"
    /\ TailFrame

\* line 222
ShapInfo ==
    /\ pc = "shap_info"
    /\ out' = Append(out, "info_shap")
    /\ pc' = "explain"
    /\ UNCHANGED reported
    /\ TailFrame

\* --- explain_gnn_with_shap (lines 23-56)
SampleCount == 5                  \* line 23: sample_count=5

\* A batch of valid_loader, the loader main passes at line 223: like a
\* training batch, a plain tuple (sensor windows, class labels, domain ids).
ValidBatch(n) ==
    LET ids == [j \in 1..n |-> Sample(0, j)]
    IN [tuple |-> TRUE,
        elems |-> << [kind |-> "x", shape |-> SensorShape(n), rows |-> ids],
                     [kind |-> "y", shape |-> <<n>>, rows |-> ids],
                     [kind |-> "d", shape |-> <<n>>, rows |-> ids] >>]

\* hasattr(obj, 'to_data_list'): true of a batched graph object only.
HasToDataList(obj) == obj.kind = "graphbatch"

\* to_data_list(): the graphs of a batched graph object, one per sample.
ToDataList(gb) ==
    [i \in 1..Len(gb.rows) |->
        [kind |-> "graph", shape |-> <<>>, rows |-> <<gb.rows[i]>>]]

\* lines 28-34: the list the samples are taken from.  In the last branch
\* data_list is the batch itself: for a tuple, its elements.
DataList(batch) ==
    IF IsTuple(batch) /\ HasToDataList(batch.elems[1])
    THEN ToDataList(batch.elems[1])
    ELSE IF ~IsTuple(batch) /\ HasToDataList(batch.elems[1])
    THEN ToDataList(batch.elems[1])
    ELSE IF IsTuple(batch) THEN batch.elems
    ELSE [i \in 1..Len(batch.elems[1].rows) |->
             [kind |-> "row", shape |-> <<>>,
              rows |-> <<batch.elems[1].rows[i]>>]]

\* lines 36-37: data_list[:sample_count]
FirstK(l, k) == SubSeq(l, 1, Min(k, Len(l)))

\* line 223 into lines 24-37: one batch is drawn from valid_loader and the
\* background and evaluation sets are cut from it.
Explain ==
    /\ pc = "explain"
    /\ \E n \in 1..MaxValid :
          /\ shap_batch' = ValidBatch(n)
          /\ background' = FirstK(DataList(ValidBatch(n)), SampleCount)
          /\ test_samples' = FirstK(DataList(ValidBatch(n)), SampleCount)
    /\ pc' = "explain_shap"
    /\ UNCHANGED <<cfgVars, failed_at, loopVars, data, raw, gnnVars, algVars,
                   optVars, lossVars, accVars, trace, phases, out>>

\* lines 39-56: the attribution values are computed and the evaluation set is
\* re-batched for plotting.
ExplainShap ==
    /\ pc = "explain_shap"
    /\ pc' = "plot"
    /\ UNCHANGED <<out, reported>>
    /\ TailFrame

\* lines 224-225: plot_shap_summary writes shap_summary.png
Plot ==
    /\ pc = "plot"
    /\ pc' = "shap_saved"
    /\ UNCHANGED <<out, reported>>
    /\ TailFrame

\* line 226
ShapSaved ==
    /\ pc = "shap_saved"
    /\ out' = Append(out, "info_shap_saved")
    /\ pc' = "done"
    /\ UNCHANGED reported
    /\ TailFrame

\* ------------------------------------------------------------ exceptions
\* The statements that call a collaborator: the loader, the graph builder
\* and the encoder, the algorithm, the evaluator, the explainability step.
CallSites == {"fa_data", "fa_graph", "fa_call", "dc_data", "dc_graph",
              "dc_call", "set_dlabel", "il_data", "il_graph", "il_call",
              "eval_train", "eval_valid", "eval_target", "explain",
              "explain_shap", "plot"}

RaiseSwallowed ==
    /\ pc \in CallSites
    /\ pc' = "report"
    /\ failed_at' = pc
    /\ UNCHANGED <<cfgVars, shapVars, loopVars, data, raw, gnnVars, algVars, optVars,
                   lossVars, accVars, trace, phases, out>>

\* A call raises: main has no handler, so the run ends there.
Raise ==
    /\ pc \in CallSites
    /\ pc' = "aborted"
    /\ failed_at' = pc
    /\ UNCHANGED <<cfgVars, shapVars, loopVars, data, raw, gnnVars, algVars, optVars,
                   lossVars, accVars, trace, phases, out>>

Next ==
    \/ GnnInit \/ MakeOptd \/ MakeOpt \/ MakeOpta
    \/ RoundHead
    \/ FaStep \/ FaData \/ FaGraph \/ FaCall \/ FaRow
    \/ DcHead \/ DcStep \/ DcData \/ DcGraph \/ DcCall \/ DcRow
    \/ SetDlabel
    \/ IlHead \/ IlStep \/ IlData \/ IlGraph \/ IlCall
    \/ EvalTrain \/ EvalValid \/ EvalTarget \/ IlRow
    \/ Report \/ ShapInfo \/ Explain \/ ExplainShap \/ Plot \/ ShapSaved
    \/ Raise

Spec == Init /\ [][Next]_vars

\* ======================================================================
\* Properties
\* ======================================================================
Rounds == 0..(MaxEpoch + 1)

\* Positions of the trace holding a call of the given name made in round r.
Idx(name, r) ==
    {i \in 1..Len(trace) : trace[i].call = name /\ trace[i].round = r}

Count(name, r) == Cardinality(Idx(name, r))

CountAll(name) == Cardinality({i \in 1..Len(trace) : trace[i].call = name})

CountOut(line) == Cardinality({i \in 1..Len(out) : out[i] = line})

\* Calls one phase of one round makes: local_epoch passes over the loader.
PerPhase == args.local_epoch * train_len

Entered(r, name) ==
    \E i \in 1..Len(phases) : phases[i] = [round |-> r, phase |-> name]

EvalCalls == {"eval_train", "eval_valid", "eval_target"}

\* C1: in every round set_dlabel is called at most once; whenever it is called,
\* all local_epoch * train_len update_d calls of that round (and all its
\* update_a calls) are already made and no update call or evaluation of that
\* round is; a round that has entered invariant learning, or has finished,
\* has had exactly one set_dlabel call; no call belongs to a round past
\* max_epoch.
C1_SetDlabelOnceBetweenPhases ==
    \A r \in Rounds :
        /\ Count("set_dlabel", r) <= 1
        /\ \A i \in Idx("set_dlabel", r) :
              /\ r < args.max_epoch
              /\ Cardinality({j \in Idx("update_d", r) : j < i}) = PerPhase
              /\ Cardinality({j \in Idx("update_a", r) : j < i}) = PerPhase
              /\ \A j \in 1..Len(trace) :
                    (trace[j].round = r /\ j # i) =>
                        IF trace[j].call \in {"update_a", "update_d"}
                        THEN j < i ELSE j > i
        /\ (r < round \/ Entered(r, "INVARIANT_LEARNING")
               \/ Count("update", r) > 0)
              => Count("set_dlabel", r) = 1

\* C1 witness: a finished two-round run in which both rounds made update_d
\* and update calls around their set_dlabel call.
C1_Witness ==
    /\ pc = "done" /\ round = 2 /\ PerPhase >= 2
    /\ Count("set_dlabel", 0) = 1 /\ Count("set_dlabel", 1) = 1
    /\ Count("update_d", 1) = PerPhase /\ Count("update", 1) = PerPhase

PhaseOrder == <<"FEATURE_UPDATE", "DOMAIN_CHARACTERIZATION",
                "SET_PSEUDO_LABELS", "INVARIANT_LEARNING">>

PhaseOf(name) ==
    CASE name = "update_a" -> 1
      [] name = "update_d" -> 2
      [] name = "set_dlabel" -> 3
      [] OTHER -> 4

\* The place of a call's phase in the run's sequence of phases.
Rank(c) == 4 * c.round + PhaseOf(c.call)

\* The calls a finished phase must have made.
PhaseComplete(p) ==
    CASE p.phase = "FEATURE_UPDATE" -> Count("update_a", p.round) = PerPhase
      [] p.phase = "DOMAIN_CHARACTERIZATION" ->
            Count("update_d", p.round) = PerPhase
      [] p.phase = "SET_PSEUDO_LABELS" -> Count("set_dlabel", p.round) = 1
      [] OTHER ->
            /\ Count("update", p.round) = PerPhase
            /\ \A e \in EvalCalls : Count(e, p.round) = args.local_epoch

C2_PhaseInv ==
    /\ \A i \in 1..Len(phases) :
          phases[i] = [round |-> (i - 1) \div 4,
                       phase |-> PhaseOrder[((i - 1) % 4) + 1]]
    /\ \A i \in 1..(Len(phases) - 1) : PhaseComplete(phases[i])
    /\ \A i \in 1..(Len(trace) - 1) : Rank(trace[i]) <= Rank(trace[i + 1])
    /\ \A i \in 1..Len(trace) : Rank(trace[i]) <= Len(phases)
    /\ Len(phases) <= 4 * args.max_epoch
    /\ reported # -1 =>
          /\ Len(phases) = 4 * args.max_epoch
          /\ round = args.max_epoch
          /\ Len(phases) > 0 => PhaseComplete(phases[Len(phases)])
    /\ pc = "done" => (reported = target_acc /\ CountOut("final") = 1)

C2_CallInItsPhase ==
    /\ Len(phases') > 0
    /\ Rank(trace'[Len(trace')]) = Len(phases')

\* C2: the phases entered are, in order, FEATURE_UPDATE,
\* DOMAIN_CHARACTERIZATION, SET_PSEUDO_LABELS, INVARIANT_LEARNING of round 0,
\* then of round 1, ...: none skipped or repeated; every algorithm call is
\* made in the phase it belongs to (update_a in FEATURE_UPDATE, ...), so no
\* phase is interleaved with another; a phase is left only with all its
\* calls made, so round r+1 starts after round r's invariant learning; the
\* target accuracy is reported, and the run ends, only after exactly
\* max_epoch rounds.
C2_PhaseOrder ==
    /\ []C2_PhaseInv
    /\ [][trace' # trace => C2_CallInItsPhase]_vars

\* C2 witness: a finished two-round run whose phases all made calls.
C2_Witness ==
    /\ pc = "done" /\ args.max_epoch = 2 /\ PerPhase >= 2
    /\ Len(phases) = 8 /\ reported # -1

C3_Step ==
    /\ best_valid_acc' >= best_valid_acc
    /\ target_acc' # target_acc => best_valid_acc' > best_valid_acc

\* C3: in every step best_valid_acc does not decrease, and target_acc changes
\* only if best_valid_acc strictly increases in the same step.
C3_BestValidMonotone ==
    [][C3_Step]_vars

\* C3 witness: the tracker has processed at least two evaluations and holds
\* the largest validation accuracy with a target accuracy recorded beside it.
C3_Witness ==
    /\ pc = "il_step" /\ hist.n >= 2
    /\ best_valid_acc = MaxAcc /\ target_acc = 1

\* C4 (the claim as stated): once the final line is printed after at least
\* one evaluation, the value printed is the target accuracy measured at the
\* first evaluation that returned the run's largest validation accuracy.
C4_ReportedIsTargetAtBestValid ==
    (reported # -1 /\ hist.n >= 1) => reported = hist.target_at_max

\* The batch handed to the algorithm at a call site.
AtCall == pc \in {"fa_call", "dc_call", "il_call"}

\* C5: in graph mode, at each of the three call sites, data is a tuple as
\* long as the loader's batch, its first element is the encoder's embedding
\* and every other element is the loader's, in the same position.
C5_OnlyFirstElementReplaced ==
    (GraphMode /\ AtCall) =>
        /\ data.tuple = raw.tuple
        /\ Len(data.elems) = Len(raw.elems)
        /\ data.elems[1] = gnn_features
        /\ data.elems[1].kind = "emb"
        /\ \A k \in 2..Len(raw.elems) : data.elems[k] = raw.elems[k]

\* C5 witness: graph mode, at the update_d call site, with labels and domain
\* ids behind the embedding.
C5_Witness ==
    /\ GraphMode /\ pc = "dc_call" /\ it >= 2
    /\ Len(raw.elems) = 3 /\ data.elems[1].kind = "emb"
    /\ data.elems[2].kind = "y" /\ data.elems[3].kind = "d"

\* C6: in graph mode, at each call site, there are as many graphs as the
\* loader's batch has samples, graph i is built from sample i, the graph
\* loader yielded exactly one batch, and the embedding in data has one row
\* per sample of this batch, row i being sample i's.
C6_ShapePreserving ==
    (GraphMode /\ AtCall) =>
        LET x == raw.elems[1]
        IN /\ Len(gnn_graphs) = x.shape[1]
           /\ \A i \in 1..Len(gnn_graphs) : gnn_graphs[i].sample = x.rows[i]
           /\ n_graph_batches = 1
           /\ data.elems[1].shape[1] = x.shape[1]
           /\ data.elems[1].rows = x.rows

\* C6 witness: graph mode, a batch of several windows of shape [B, C, 1, T],
\* not the first batch drawn.
C6_Witness ==
    /\ GraphMode /\ pc = "fa_call" /\ rank4 /\ it >= 2
    /\ raw.elems[1].shape[1] >= 2 /\ Len(gnn_graphs) >= 2

\* The attributes whose parameters belong to one optimizer kind only.
ExclusiveTo(nettype) ==
    SubsetSlots(nettype) \ UNION {SubsetSlots(o) : o \in NetTypes \ {nettype}}

C7_OthersKept ==
    \A s \in ExclusiveTo("Diversify-adv") \cup ExclusiveTo("Diversify-cls") :
        version'[modules[s]] = version[modules[s]]

\* C7: a step that calls update_a leaves the parameters of every module held
\* exclusively by the domain-characterization ("Diversify-adv") or the
\* invariant-learning ("Diversify-cls") subset unchanged.
C7_UpdateAKeepsOtherHeads ==
    [][(pc = "fa_call" /\ pc' = "fa_data") => C7_OthersKept]_vars

\* C7 witness: update_a has stepped its own modules and no other optimizer
\* has run yet.
C7_Witness ==
    /\ pc = "fa_data" /\ round = 0 /\ it >= 1
    /\ version[modules["abottleneck"]] >= 1
    /\ version[modules["dbottleneck"]] = 0
    /\ version[modules["bottleneck"]] = 0

SetupPcs == {"gnn_init", "make_optd", "make_opt", "make_opta"}

C8_OptInv ==
    /\ pc \in SetupPcs => (trace = <<>> /\ phases = <<>>)
    /\ pc \notin SetupPcs \cup {"aborted"} =>
          /\ optd.id # 0 /\ opt.id # 0 /\ opta.id # 0
          /\ optd.id # opt.id /\ opt.id # opta.id /\ optd.id # opta.id
          /\ next_id = opta.id + 1
    /\ \A i \in 1..Len(trace) :
          /\ trace[i].call = "update_a" => trace[i].opt = opta.id
          /\ trace[i].call = "update_d" => trace[i].opt = optd.id
          /\ trace[i].call = "update" => trace[i].opt = opt.id

\* C8: no algorithm call is made before the three optimizers exist; once the
\* setup is over the three are distinct objects, no further object is
\* created and opt, opta, optd never change; every update_a call received
\* opta, every update_d call optd and every update call opt.
C8_OptimizersCreatedOnce ==
    /\ []C8_OptInv
    /\ [][(pc \notin SetupPcs) => UNCHANGED <<optd, opt, opta, next_id>>]_vars

\* C8 witness: a finished two-round run with calls of all three kinds in both
\* rounds.
C8_Witness ==
    /\ pc = "done" /\ round = 2
    /\ Count("update_a", 1) >= 1 /\ Count("update_d", 1) >= 1
    /\ Count("update", 1) >= 1 /\ Count("update_a", 0) >= 1

ShapPcs == {"shap_info", "explain", "explain_shap", "plot", "shap_saved"}

C9_Untouched ==
    UNCHANGED <<best_valid_acc, target_acc, reported, trace, version, phases>>

\* C9: the explainability step runs only after max_epoch rounds are finished
\* and the final line is printed; no step taken from within it (a failure
\* included) changes best_valid_acc, target_acc, the value reported, the
\* parameters, or makes a call on the algorithm or the evaluator.
C9_ExplainAfterReport ==
    /\ [](pc \in ShapPcs =>
            /\ reported # -1 /\ reported = target_acc
            /\ round = args.max_epoch
            /\ CountOut("final") = 1)
    /\ [][(pc \in ShapPcs) => C9_Untouched]_vars

\* C9 witness: the run failed inside the explainability step, after a
\* non-zero target accuracy was reported.
C9_Witness ==
    /\ pc = "aborted" /\ reported = MaxAcc /\ target_acc = MaxAcc
    /\ CountOut("info_shap") = 1 /\ CountOut("info_shap_saved") = 0

\* Every header line h is followed by exactly local_epoch row lines rw.
Blocks(h, rw) ==
    \A i \in 1..Len(out) :
        out[i] = h =>
            /\ \A k \in 1..args.local_epoch :
                  i + k <= Len(out) /\ out[i + k] = rw
            /\ (i + args.local_epoch + 1 <= Len(out))
                  => out[i + args.local_epoch + 1] # rw

MetricLines == {"fa_header", "fa_row", "dc_header", "dc_row",
                "il_header", "il_row"}

\* C10: a finished run over a loader of at least one batch has printed, per
\* phase category, max_epoch headers each followed by exactly local_epoch
\* rows (and no other row), then one final line after all of them, and has
\* called update_a, update_d and update max_epoch * local_epoch * train_len
\* times each.
C10_BlocksAndCalls ==
    (pc = "done" /\ train_len >= 1) =>
        /\ \A c \in {<<"fa_header", "fa_row">>, <<"dc_header", "dc_row">>,
                     <<"il_header", "il_row">>} :
              /\ CountOut(c[1]) = args.max_epoch
              /\ CountOut(c[2]) = args.max_epoch * args.local_epoch
              /\ Blocks(c[1], c[2])
        /\ CountOut("final") = 1
        /\ \A i \in 1..Len(out) : \A j \in 1..Len(out) :
              (out[i] = "final" /\ out[j] \in MetricLines) => j < i
        /\ \A name \in {"update_a", "update_d", "update"} :
              CountAll(name) = args.max_epoch * PerPhase

\* C10 witness: the finished run with 2 rounds, 1 inner epoch and 3 batches:
\* 2 blocks per category, 6 calls of each kind.
C10_Witness ==
    /\ pc = "done" /\ args.max_epoch = 2 /\ args.local_epoch = 1
    /\ train_len = 3
    /\ CountOut("fa_header") = 2 /\ CountOut("il_row") = 2
    /\ CountAll("update") = 6 /\ CountOut("final") = 1

\* ------------------------------------------------------------------ C11
RECURSIVE Rep(_, _)
\* n copies of the sequence q, one after the other.
Rep(q, n) == IF n <= 0 THEN <<>> ELSE q \o Rep(q, n - 1)

IsPrefix(a, b) == Len(a) <= Len(b) /\ a = SubSeq(b, 1, Len(a))

\* The calls and the console lines of a complete run, written as a function of
\* max_epoch, local_epoch and the loader length alone: use_gnn is no
\* argument of either.
RunCalls(R, L, B) ==
    Rep(Rep(<<"update_a">>, L * B) \o Rep(<<"update_d">>, L * B)
           \o <<"set_dlabel">>
           \o Rep(Rep(<<"update">>, B)
                     \o <<"eval_train", "eval_valid", "eval_target">>, L),
        R)

RunLines(R, L) ==
    Rep(<<"round_banner", "fa_title", "fa_header">> \o Rep(<<"fa_row">>, L)
           \o <<"dc_title", "dc_header">> \o Rep(<<"dc_row">>, L)
           \o <<"il_title", "il_header">> \o Rep(<<"il_row">>, L),
        R) \o <<"final">>

GnnInitLines == {"info_gnn", "info_bottleneck", "info_abottleneck",
                 "info_dbottleneck"}

ShapLines == {"info_shap", "info_shap_saved"}

CallNames == [i \in 1..Len(trace) |-> trace[i].call]

Without(lines) == SelectSeq(out, LAMBDA l : l \notin lines)

C12_BatchSizeDerived ==
    pc \in {"loaders", "gnn_init"} =>
        LET n == args.latent_domain_num
        IN /\ n < 6 => args.batch_size = 32 * n
           /\ n >= 6 => args.batch_size = 16 * n
           /\ n = 5 => args.batch_size = 160
           /\ n = 6 => args.batch_size = 96

\* C12 witness: the loaders are about to be built with latent_domain_num = 6
\* and batch_size = 96.
C12_Witness ==
    /\ pc = "loaders" /\ args.latent_domain_num = 6 /\ args.batch_size = 96

\* The call sites of the explainability step, which runs after training.
ShapSites == {"explain", "explain_shap", "plot"}

\* The statement that fails makes no call, prints nothing and reports
\* nothing; after it nothing runs at all.
C13_FailingStep ==
    /\ pc # "aborted"
    /\ failed_at' # failed_at =>
           /\ failed_at = "" /\ pc' = "aborted"
           /\ trace' = trace /\ out' = out /\ phases' = phases
           /\ reported' = reported

\* C13: a statement that fails (a call of a collaborator, or the statement
\* reading what a call should have produced) ends the run at that statement:
\* the run is aborted from then on, no step follows, so the failed call is
\* not repeated and no later call, evaluation or line is made, and when the
\* failure is in training the final target-accuracy line has not been and
\* is never printed.
C13_NoRetryNoRecovery ==
    /\ [](failed_at # "" => pc = "aborted")
    /\ []((failed_at # "" /\ failed_at \notin ShapSites) =>
              (reported = -1 /\ CountOut("final") = 0))
    /\ [][C13_FailingStep]_vars

\* C13 witness: an update call of the second round's invariant-learning
\* phase failed after earlier calls and evaluations succeeded.
C13_Witness ==
    /\ pc = "aborted" /\ failed_at = "il_call" /\ round = 1
    /\ CountAll("update") >= 1 /\ CountAll("eval_target") >= 1

\* The samples a batch holds, in batch order, whatever its form.
BatchSamples(batch) == batch.elems[1].rows

\* C14: after explain_gnn_with_shap has cut its two sets (lines 26-37) from
\* the one batch it drew, the background set and the evaluation set are
\* equal and hold the first min(sample_count, batch size) samples of that
\* batch, one item per sample, also for the plain tuple (sensor tensor,
\* labels, domain ids) that the validation loader yields.
C14_FirstSamplesOfBatch ==
    pc = "explain_shap" =>
        LET k == Min(SampleCount, Len(BatchSamples(shap_batch)))
        IN /\ background = test_samples
           /\ Len(background) = k
           /\ \A i \in 1..Len(background) :
                  background[i].rows = <<BatchSamples(shap_batch)[i]>>

\* The update calls of the round of position i made up to position i.
UpdatesUpTo(i) ==
    Cardinality({j \in 1..i : /\ trace[j].call = "update"
                              /\ trace[j].round = trace[i].round})

\* Position i holds the call named c, made in the round of position j.
IsCall(i, c, j) ==
    /\ i >= 1 /\ i <= Len(trace)
    /\ trace[i].call = c /\ trace[i].round = trace[j].round

\* The calls around position i are those of one inner epoch of invariant
\* learning: train_len updates, then the three evaluations in order.
C15_EpochShape(i) ==
    LET c == trace[i].call
        last == i = Len(trace)
    IN /\ c = "eval_train" =>
              /\ \A k \in 1..train_len : IsCall(i - k, "update", i)
              /\ \/ IsCall(i - train_len - 1, "set_dlabel", i)
                 \/ IsCall(i - train_len - 1, "eval_target", i)
              /\ last \/ IsCall(i + 1, "eval_valid", i)
       /\ c = "eval_valid" =>
              /\ IsCall(i - 1, "eval_train", i)
              /\ last \/ IsCall(i + 1, "eval_target", i)
       /\ c = "eval_target" =>
              /\ IsCall(i - 1, "eval_valid", i)
              /\ (~last /\ train_len > 0) => trace[i + 1].call \notin EvalCalls
       /\ (c = "update" /\ UpdatesUpTo(i) % train_len = 0) =>
              last \/ IsCall(i + 1, "eval_train", i)

\* The tracker holds the largest validation accuracy evaluated so far
\* (0 while none exceeded 0).
TrackerCurrent ==
    best_valid_acc = IF hist.max_valid > 0 THEN hist.max_valid ELSE 0

\* An evaluation is made only while the last phase entered is invariant
\* learning, in the current round.
C15_EvalInItsPhase ==
    (Len(trace') > Len(trace) /\ trace'[Len(trace')].call \in EvalCalls) =>
        /\ phases # <<>>
        /\ phases[Len(phases)] =
               [round |-> round, phase |-> "INVARIANT_LEARNING"]
        /\ trace'[Len(trace')].round = round
        /\ pc \in {"eval_train", "eval_valid", "eval_target"}

\* C15: evaluations are made only in the invariant-learning phase; every
\* inner epoch of it, after its train_len update calls, makes exactly the
\* evaluations train, validation, target in that order; and whenever an
\* update call or anything else than the printing of an evaluated row is
\* next, the best-validation tracker already accounts for every evaluation
\* made.
C15_EvalAfterEachInnerEpoch ==
    /\ [](\A i \in 1..Len(trace) : C15_EpochShape(i))
    /\ [](pc \notin {"il_row", "aborted"} => TrackerCurrent)
    /\ []((pc = "il_call") => results = NoResults)
    /\ [][C15_EvalInItsPhase]_vars

\* C15 witness: the first update of the second inner epoch is about to be
\* called, after the first inner epoch's two updates and three evaluations
\* raised the tracker.
C15_Witness ==
    /\ pc = "il_call" /\ step = 1 /\ train_len = 2
    /\ Count("update", round) = 2 /\ Count("eval_target", round) = 1
    /\ best_valid_acc > 0 /\ trace[Len(trace)].call = "eval_target"

\* The loss result an update call of the current inner epoch produced.
LossOf(name) == [by |-> name, round |-> round, step |-> step]

\* C16: whenever a metric row is about to be printed, the loss result it
\* reads was produced, and by an update call (update_a, update_d or update,
\* according to the phase) of the same round and inner epoch, for every
\* max_epoch, local_epoch and loader length, an empty loader included.
C16_RowReportsOwnEpochLoss ==
    /\ pc = "fa_row" => loss_result_dict = LossOf("update_a")
    /\ pc = "dc_row" => loss_result_dict = LossOf("update_d")
    /\ pc = "il_row" => step_vals = LossOf("update")

AnyOptimizer == optd # NoOpt \/ opt # NoOpt \/ opta # NoOpt

\* The attributes lines 99-109 assign in graph mode.
ReplacedSlots == {"featurizer", "bottleneck", "abottleneck", "dbottleneck"}

\* Once an optimizer exists no attribute of the algorithm is assigned.
C17_NoReplacement ==
    AnyOptimizer =>
        /\ modules' = modules /\ alg_use_gnn' = alg_use_gnn /\ gnn' = gnn

\* An optimizer that exists holds the modules its subset's attributes hold
\* now.
OverCurrentModules(o) ==
    o # NoOpt => o.params = {modules[s] : s \in SubsetSlots(o.nettype)}

\* In graph mode the replacements are complete: the encoder exists and is
\* attached, use_gnn is set, and the four attributes hold objects built
\* after the encoder, distinct from each other.
ReplacementsDone ==
    /\ gnn # 0 /\ modules["gnn_extractor"] = gnn /\ alg_use_gnn
    /\ \A s \in ReplacedSlots : modules[s] > gnn
    /\ \A s, t \in ReplacedSlots : s # t => modules[s] # modules[t]

\* C17: in graph mode, whenever an optimizer exists all replacements of
\* lines 99-112 are complete; once an optimizer exists no sub-module,
\* gnn_extractor or use_gnn is assigned again; so each optimizer holds the
\* modules that its subset's attributes hold for the rest of the run.
C17_ReplacementsBeforeOptimizers ==
    /\ []((args.use_gnn # 0 /\ AnyOptimizer) => ReplacementsDone)
    /\ [](OverCurrentModules(optd) /\ OverCurrentModules(opt)
             /\ OverCurrentModules(opta))
    /\ [][C17_NoReplacement]_vars

\* C17 witness: a graph-mode run whose three optimizers all stepped.
C17_Witness ==
    /\ args.use_gnn = 1 /\ pc = "report"
    /\ CountAll("update_a") >= 1 /\ CountAll("update_d") >= 1
    /\ CountAll("update") >= 1
    /\ \A s \in ReplacedSlots \ {"featurizer"} : version[modules[s]] >= 1

====
